---- MODULE Spec2Model ----
(***************************************************************************)
(* Model of ae/utils/get_detailed_accessibility_tree.py: the mmid          *)
(* injector, the DOM cleanup, the per-node resolver/enricher               *)
(* (process_node), the pruner (__prune_tree, __should_prune_node) and the  *)
(* extraction call do_get_accessibility_info that sequences them; and of    *)
(* ae/core/skills/click_using_selector.py: click and do_click.             *)
(*                                                                         *)
(* Data representation                                                     *)
(*   - a Python/JS string that the code inspects character by character    *)
(*     (name, description, aria-label, placeholder, text, mmid,            *)
(*     keyshortcuts) is a sequence of one-character strings;               *)
(*   - a string the code only compares as a whole (role, tag, tag_type,    *)
(*     id, for, data-testid) is a TLA+ string, "" being the missing/empty  *)
(*     attribute (the code tests those for truthiness only);               *)
(*   - an accessibility node (a Python dict) is a function whose DOMAIN    *)
(*     is the set of keys present;                                         *)
(*   - a value that may be None/null is a sequence of length 0 or 1.       *)
(***************************************************************************)
EXTENDS Integers, Sequences, FiniteSets, TLC

VARIABLES
    dom,      \* the live page: [title, elems], elems in document order
    oif,      \* the only_input_fields argument of the call(s)
    pc,       \* pc[c]: position of call c in do_get_accessibility_info
    tree,     \* tree[c]: the local accessibility_tree (None before the snapshot)
    result,   \* result[c]: the value returned to the caller (None = <<>>)
    rawlog,   \* rawlog[c]: content written to json_accessibility_dom.json
    steps,    \* steps[c]: the steps call c has executed so far, in order
    pre,      \* pre[c]: the page's elements as call c's injection found them
    cycle,    \* number of extraction calls started so far
    pin,      \* pruner harness: the node handed to __prune_tree
    pout,     \* pruner harness: what __prune_tree returned
    pstate,   \* pruner harness: "off" | "ready" | "done"
    overlap,  \* history: an extraction call started while another was in flight
    click     \* the click skill: its position, locals and returned message

vars == <<dom, oif, pc, tree, result, rawlog, steps, pre, cycle, pin, pout, pstate,
          overlap, click>>

-----------------------------------------------------------------------------
(* Bounds *)

\* number of extraction calls made one after the other on the same page
MaxCycles == 2
\* number of nodes of a tree handed to the pruner
MaxNodes == 4
\* number of nodes of a raw snapshot handed to the enricher
MaxRawNodes == 3
\* number of elements the page removes while two callers race
MaxRemovals == 1

-----------------------------------------------------------------------------
(* Optional values *)

None == <<>>
Some(x) == <<x>>
IsSome(m) == Len(m) = 1
Val(m) == m[1]

-----------------------------------------------------------------------------
(* Strings as character sequences *)

Digits == {"0", "1", "2", "3", "4", "5", "6", "7", "8", "9"}

\* str.strip() / String.prototype.trim(): the whitespace the model's strings use
Whitespace == {" ", "\n"}

DigitVal(ch) ==
    CASE ch = "0" -> 0 [] ch = "1" -> 1 [] ch = "2" -> 2 [] ch = "3" -> 3
      [] ch = "4" -> 4 [] ch = "5" -> 5 [] ch = "6" -> 6 [] ch = "7" -> 7
      [] ch = "8" -> 8 [] OTHER -> 9

DigitChar(d) ==
    CASE d = 0 -> "0" [] d = 1 -> "1" [] d = 2 -> "2" [] d = 3 -> "3"
      [] d = 4 -> "4" [] d = 5 -> "5" [] d = 6 -> "6" [] d = 7 -> "7"
      [] d = 8 -> "8" [] OTHER -> "9"

\* re.compile(r'^[\d ]+$').fullmatch(s)
is_space_delimited_mmid(s) ==
    /\ Len(s) > 0
    /\ \A i \in 1..Len(s) : s[i] \in Digits \cup {" "}

\* s.split(' ')[-1]: what follows the last space (all of s if it has none)
LastToken(s) ==
    LET sp == {i \in 1..Len(s) : s[i] = " "}
        from == IF sp = {} THEN 1 ELSE (CHOOSE i \in sp : \A j \in sp : j <= i) + 1
    IN  SubSeq(s, from, Len(s))

RECURSIVE DigitsValue(_)
DigitsValue(s) ==
    IF Len(s) = 0 THEN 0
    ELSE 10 * DigitsValue(SubSeq(s, 1, Len(s) - 1)) + DigitVal(s[Len(s)])

\* int(x) of line 85 for x None or a string: Some(n), or None where Python
\* raises ValueError/TypeError (None, the empty string, a non-digit character)
ParseInt(m) ==
    IF /\ IsSome(m)
       /\ Len(Val(m)) > 0
       /\ \A i \in 1..Len(Val(m)) : Val(m)[i] \in Digits
    THEN Some(DigitsValue(Val(m)))
    ELSE None

\* str(n) / `${n}` for n >= 0
RECURSIVE ToStr(_)
ToStr(n) ==
    IF n < 10 THEN <<DigitChar(n)>>
    ELSE ToStr(n \div 10) \o <<DigitChar(n % 10)>>

\* s.replace(ch, by) for a one-character ch
RECURSIVE Replace(_, _, _)
Replace(s, ch, by) ==
    IF Len(s) = 0 THEN <<>>
    ELSE (IF Head(s) = ch THEN by ELSE <<Head(s)>>) \o Replace(Tail(s), ch, by)

\* s.strip()
Strip(s) ==
    LET keep == {i \in 1..Len(s) : s[i] \notin Whitespace}
    IN  IF keep = {} THEN <<>>
        ELSE SubSeq(s, CHOOSE i \in keep : \A j \in keep : i <= j,
                       CHOOSE i \in keep : \A j \in keep : j <= i)

\* sub in s
Contains(sub, s) ==
    \E i \in 1..(Len(s) - Len(sub) + 1) : SubSeq(s, i, i + Len(sub) - 1) = sub

-----------------------------------------------------------------------------
(* Python dicts *)

Has(n, k) == k \in DOMAIN n
\* n.get(k) for a string-valued key, None as the empty string when the code
\* only tests the value for truthiness
GetStr(n, k) == IF k \in DOMAIN n THEN n[k] ELSE <<>>
\* n.get(k) for role/tag: "" stands for None
GetAtom(n, k) == IF k \in DOMAIN n THEN n[k] ELSE ""
Put(n, k, v) == (k :> v) @@ n
Del(n, k) == [x \in DOMAIN n \ {k} |-> n[x]]
\* n.update(e)
Update(n, e) == e @@ n
\* n[k] = v when v is truthy (a text)
PutStr(n, k, v) == IF Len(v) > 0 THEN Put(n, k, v) ELSE n
\* n[k] = v when v is truthy (a whole string)
PutAtom(n, k, v) == IF v # "" THEN Put(n, k, v) ELSE n

-----------------------------------------------------------------------------
(* The live DOM *)

\* A DOM element.  eid is the element's identity (the JS object), parent the
\* eid of its parent element (0: a child of the document), role/aname the role
\* and name the browser computes for its accessibility node, text its
\* textContent/innerText.  mmid, aks (aria-keyshortcuts) and orig
\* (orig-aria-keyshortcuts) are None when the attribute is missing.
El(eid, parent, tag, role, aname, text) ==
    [eid |-> eid, parent |-> parent, tag |-> tag, id |-> "", type |-> "",
     role |-> role, aname |-> aname, text |-> text,
     mmid |-> None, aks |-> None, orig |-> None,
     name |-> <<>>, arialabel |-> <<>>, placeholder |-> <<>>,
     for |-> "", testid |-> ""]

\* JS truthiness of getAttribute's result: null and "" are falsy
Truthy(m) == IsSome(m) /\ Len(Val(m)) > 0

\* lines 39-45 leaving alone an element that a previous cycle numbered
InjectElementOnlyNew(e, id) ==
    IF IsSome(e.mmid) THEN e
    ELSE [e EXCEPT !.mmid = Some(ToStr(id)),
                   !.aks = Some(ToStr(id)),
                   !.orig = IF Truthy(e.aks) THEN e.aks ELSE @]

\* lines 39-45 with a one-off slip: `${id++}` numbers the elements from 0
InjectElementPostIncrement(e, id) ==
    [e EXCEPT !.mmid = Some(ToStr(id - 1)),
              !.aks = Some(ToStr(id - 1)),
              !.orig = IF Truthy(e.aks) THEN e.aks ELSE @]

\* the forEach body of __inject_attributes, id being the value of ++id
InjectElement(e, id) ==
    [e EXCEPT !.mmid = Some(ToStr(id)),
              !.aks = Some(ToStr(id)),
              !.orig = IF Truthy(e.aks) THEN e.aks ELSE @]

\* __inject_attributes: querySelectorAll('*') is every element in document order
inject_attributes(elems) ==
    [i \in 1..Len(elems) |-> InjectElement(elems[i], i)]

\* lines 211-216 removing the mmid attribute as well
CleanupElementRemovesMmid(e) ==
    IF Truthy(e.orig)
    THEN [e EXCEPT !.aks = e.orig, !.orig = None, !.mmid = None]
    ELSE [e EXCEPT !.aks = None, !.mmid = None]

\* lines 211-216 without the restore
CleanupElementNoRestore(e) == [e EXCEPT !.aks = None, !.orig = None]

\* the forEach body of __cleanup_dom, for an element matching *[mmid]
CleanupElement(e) ==
    IF Truthy(e.orig)
    THEN [e EXCEPT !.aks = e.orig, !.orig = None]
    ELSE [e EXCEPT !.aks = None]

\* __cleanup_dom: querySelectorAll('*[mmid]')
cleanup_dom(elems) ==
    [i \in 1..Len(elems) |->
        IF IsSome(elems[i].mmid) THEN CleanupElement(elems[i]) ELSE elems[i]]

-----------------------------------------------------------------------------
(* The accessibility snapshot (the browser's side of line 378) *)

RECURSIVE Ascending(_)
Ascending(S) ==
    IF S = {} THEN <<>>
    ELSE LET m == CHOOSE i \in S : \A j \in S : i <= j
         IN  <<m>> \o Ascending(S \ {m})

ChildrenOf(elems, p) == Ascending({i \in 1..Len(elems) : elems[i].parent = p})

\* a node's children field, present only when there are children
PutChildren(n, kids) == IF Len(kids) = 0 THEN n ELSE Put(n, "children", kids)

\* The accessibility node of element i: its role, its name when it has one, the
\* keyshortcuts property when aria-keyshortcuts is set, and its children
RECURSIVE AxNode(_, _)
AxNode(elems, i) ==
    PutChildren(
        PutStr(PutStr([role |-> elems[i].role], "name", elems[i].aname),
               "keyshortcuts", IF IsSome(elems[i].aks) THEN Val(elems[i].aks) ELSE <<>>),
        [k \in 1..Len(ChildrenOf(elems, elems[i].eid)) |->
            AxNode(elems, ChildrenOf(elems, elems[i].eid)[k])])

\* page.accessibility.snapshot(interesting_only=True): the WebArea root, named
\* by the document title, over the nodes of the document's elements
AxTree(d) ==
    PutChildren(
        PutStr([role |-> "WebArea"], "name", d.title),
        [k \in 1..Len(ChildrenOf(d.elems, 0)) |-> AxNode(d.elems, ChildrenOf(d.elems, 0)[k])])

-----------------------------------------------------------------------------
(* __fetch_dom_info: resolver and enricher *)

tags_to_ignore ==
    {"head", "style", "script", "link", "meta", "noscript", "template",
     "iframe", "g", "main", "c-wiz", "svg", "path"}
attributes_to_delete == {"level", "multiline", "haspopup", "id", "for"}
ids_to_ignore == {"agentDriveAutoOverlay"}

ModalHint == "This is a modal dialog. Please interact with this dialog and close it to be able to interact with the full page (e.g., by pressing the close button or selecting an option)."

\* The page.evaluate of lines 75-79: the mmid of the first li/span/div carrying
\* an mmid whose trimmed textContent is `text`, or null
TextLookup(elems, text) ==
    LET hits == {i \in 1..Len(elems) :
                    /\ elems[i].tag \in {"li", "span", "div"}
                    /\ IsSome(elems[i].mmid)
                    /\ Strip(elems[i].text) = text}
    IN  IF hits = {} THEN None
        ELSE elems[CHOOSE i \in hits : \A j \in hits : i <= j].mmid

\* attributes_to_values of lines 118-139 for the element found; the mmid
\* attribute read by the loop of lines 127-133 replaces the number of line 120
ElementAttributes(e, should_fetch_inner_text) ==
    PutStr(
      PutAtom(PutAtom(PutAtom(
        PutStr(PutStr(PutStr(
          PutAtom([tag |-> e.tag, mmid |-> Val(e.mmid)],
                  "tag_type", IF e.tag = "input" THEN e.type ELSE ""),
          "name", e.name), "aria-label", e.arialabel), "placeholder", e.placeholder),
        "id", e.id), "for", e.for), "data-testid", e.testid),
      "description", IF should_fetch_inner_text THEN e.text ELSE <<>>)

\* The page.evaluate of lines 96-148: null, or the attributes of the first
\* element whose mmid attribute is `${mmid}`
QueryElement(elems, mmid, should_fetch_inner_text) ==
    LET hits == {i \in 1..Len(elems) : elems[i].mmid = Some(ToStr(mmid))}
        e == elems[CHOOSE i \in hits : \A j \in hits : i <= j]
    IN  IF hits = {} THEN None
        ELSE IF e.id \in ids_to_ignore THEN None
        ELSE IF e.tag \in tags_to_ignore \/ e.tag = "option" THEN None
        ELSE Some(ElementAttributes(e, should_fetch_inner_text))

\* line 66: node.get('keyshortcuts') or node.get('description')
FirstCandidate(node) ==
    IF Len(GetStr(node, "keyshortcuts")) > 0 THEN Some(node["keyshortcuts"])
    ELSE IF Has(node, "description") THEN Some(node["description"])
    ELSE None

\* lines 68-71
LastTokenOrNone(m) ==
    IF Truthy(m) /\ is_space_delimited_mmid(Val(m)) THEN Some(LastToken(Val(m))) ELSE None

\* lines 73-79
TextFallback(m, node, elems) ==
    IF ~Truthy(m) /\ Len(GetStr(node, "name")) > 0
    THEN TextLookup(elems, node["name"]) ELSE m

\* lines 81-82
LastTokenOrSame(m) ==
    IF Truthy(m) /\ is_space_delimited_mmid(Val(m)) THEN Some(LastToken(Val(m))) ELSE m

\* lines 66-87: the identifier, or None where int() raises and the node is skipped
ResolveMmid(node, elems) ==
    ParseInt(LastTokenOrSame(TextFallback(LastTokenOrNone(FirstCandidate(node)), node, elems)))

\* lines 89-90
ModalRule(node) ==
    IF GetAtom(node, "role") = "dialog" /\ Has(node, "modal") /\ node["modal"]
    THEN Put(node, "important information", ModalHint) ELSE node

\* lines 160-161
DropNameEqualMmid(n) ==
    IF Has(n, "name") /\ n["name"] = n["mmid"] /\ GetAtom(n, "role") # "textbox"
    THEN Del(n, "name") ELSE n

\* lines 163-164
DropDuplicateDescription(n) ==
    IF /\ Has(n, "name") /\ Has(n, "description")
       /\ \/ n["name"] = n["description"]
          \/ n["name"] = Replace(n["description"], "\n", <<" ">>)
          \/ Contains(Replace(n["description"], "\n", <<>>), n["name"])
    THEN Del(n, "description") ELSE n

\* lines 166-167
DropContainedAriaLabel(n) ==
    IF Has(n, "name") /\ Has(n, "aria-label") /\ Contains(n["aria-label"], n["name"])
    THEN Del(n, "aria-label") ELSE n

\* lines 169-170
DropTextEqualName(n) ==
    IF Has(n, "name") /\ Has(n, "text") /\ n["name"] = n["text"]
    THEN Del(n, "text") ELSE n

\* lines 172-175 popping only the children
SelectRuleKeepsRole(n) ==
    IF GetAtom(n, "tag") = "select" THEN Del(Del(n, "children"), "description") ELSE n

\* lines 172-175
SelectRule(n) ==
    IF GetAtom(n, "tag") = "select"
    THEN Del(Del(Del(n, "children"), "role"), "description")
    ELSE n

\* lines 177-178 deleting the tag instead of the role
DropTagEqualRole(n) ==
    IF GetAtom(n, "role") = GetAtom(n, "tag") THEN Del(n, "tag") ELSE n

\* lines 177-178 never firing
KeepRole(n) == n

\* lines 177-178
DropRoleEqualTag(n) ==
    IF GetAtom(n, "role") = GetAtom(n, "tag") THEN Del(n, "role") ELSE n

\* lines 180-181
DropAriaLabelEqualPlaceholder(n) ==
    IF /\ Len(GetStr(n, "aria-label")) > 0
       /\ Len(GetStr(n, "placeholder")) > 0
       /\ n["aria-label"] = n["placeholder"]
    THEN Del(n, "aria-label") ELSE n

\* lines 185-187
PromoteDescription(n) ==
    IF Len(GetStr(n, "description")) > 0
    THEN Del(Put(n, "text", n["description"]), "description") ELSE n

\* lines 183-187
LinkRule(n) ==
    IF GetAtom(n, "role") = "link" THEN PromoteDescription(Del(n, "role")) ELSE n

\* lines 189-191
DeleteAttributes(n) == [k \in DOMAIN n \ attributes_to_delete |-> n[k]]

\* lines 160-191: the redundancy rules, in the code's order
RedundancyRules(n) ==
    DeleteAttributes(LinkRule(DropAriaLabelEqualPlaceholder(DropRoleEqualTag(
        SelectRule(DropTextEqualName(DropContainedAriaLabel(
            DropDuplicateDescription(DropNameEqualMmid(n)))))))))

\* lines 150-153
SetMmid(n, mmid) == Put(Del(n, "keyshortcuts"), "mmid", ToStr(mmid))

\* lines 156-193 without the else branch of lines 192-193
MergeAttributesNoMark(n, element_attributes) ==
    IF IsSome(element_attributes)
    THEN RedundancyRules(Update(n, Val(element_attributes)))
    ELSE n

\* lines 156-193
MergeAttributes(n, element_attributes) ==
    IF IsSome(element_attributes)
    THEN RedundancyRules(Update(n, Val(element_attributes)))
    ELSE Put(n, "marked_for_deletion_by_mm", TRUE)

\* lines 92-193
EnrichResolved(n, mmid, elems) ==
    IF mmid = 0 THEN n
    ELSE MergeAttributes(SetMmid(n, mmid), QueryElement(elems, mmid, ~Has(n, "children")))

\* lines 66-193 with the return of line 87 marking the node for deletion
EnrichNodeMarksUnresolved(node, elems) ==
    IF ~IsSome(ResolveMmid(node, elems)) THEN Put(node, "marked_for_deletion_by_mm", TRUE)
    ELSE EnrichResolved(ModalRule(node), Val(ResolveMmid(node, elems)), elems)

\* lines 66-193 for a node whose children were processed
EnrichNode(node, elems) ==
    IF ~IsSome(ResolveMmid(node, elems)) THEN node
    ELSE EnrichResolved(ModalRule(node), Val(ResolveMmid(node, elems)), elems)

\* process_node: the children first, then the node itself
RECURSIVE process_node(_, _)
process_node(node, elems) ==
    IF Has(node, "children")
    THEN EnrichNode([node EXCEPT !["children"] =
                        [k \in 1..Len(@) |-> process_node(@[k], elems)]], elems)
    ELSE EnrichNode(node, elems)

-----------------------------------------------------------------------------
(* The pruner *)

\* line 299 without the WebArea exemption
InputOnlyRuleNoExemption(node, only_input_fields) ==
    /\ only_input_fields
    /\ ~(GetAtom(node, "tag") \in {"input", "button", "textarea"}
            \/ GetAtom(node, "role") = "button")

\* line 299: the input-only rule
InputOnlyRule(node, only_input_fields) ==
    /\ GetAtom(node, "role") # "WebArea"
    /\ only_input_fields
    /\ ~(GetAtom(node, "tag") \in {"input", "button", "textarea"}
            \/ GetAtom(node, "role") = "button")

\* lines 309-313
StrippedName(node) ==
    Strip(Replace(Replace(Replace(GetStr(node, "name"), ",", <<>>), ":", <<>>), "\n", <<>>))

\* lines 307-315 with the threshold off by one (len < 2)
ProcessedNameShort(node) ==
    IF Has(node, "name") /\ Len(StrippedName(node)) >= 2 THEN StrippedName(node) ELSE <<>>

\* lines 307-315
ProcessedName(node) ==
    IF Has(node, "name") /\ Len(StrippedName(node)) >= 3 THEN StrippedName(node) ELSE <<>>

\* __should_prune_node
should_prune_node(node, only_input_fields) ==
    \/ InputOnlyRule(node, only_input_fields)
    \/ /\ GetAtom(node, "role") = "generic"
       /\ ~Has(node, "children")
       /\ ~(Has(node, "name") /\ Len(node["name"]) > 0)
    \/ GetAtom(node, "role") \in {"separator", "LineBreak"}
    \/ /\ Cardinality(DOMAIN node) = 2
       /\ Has(node, "name")
       /\ Has(node, "role")
       /\ ~(GetAtom(node, "role") = "text" /\ ProcessedName(node) # <<>>)

RECURSIVE prune_tree(_, _)
RECURSIVE PruneChildren(_, _, _)

\* line 261 leaving the unraveled child in the list
SpliceKeepsChild(children, i, child) ==
    SubSeq(children, 1, i) \o child["children"] \o SubSeq(children, i + 1, Len(children))

\* line 261 putting the unraveled child's children at the end of the list
SpliceAppends(children, i, child) ==
    SubSeq(children, 1, i - 1) \o SubSeq(children, i + 1, Len(children)) \o child["children"]

\* line 261: the child at i replaced by its own children
Splice(children, i, child) ==
    SubSeq(children, 1, i - 1) \o child["children"] \o SubSeq(children, i + 1, Len(children))

\* the while loop of lines 255-277; i is the 1-based position of children[i]
PruneChildren(children, i, only_input_fields) ==
    IF i > Len(children) THEN children
    ELSE
    LET child == children[i]
        without == SubSeq(children, 1, i - 1) \o SubSeq(children, i + 1, Len(children))
    IN  IF Has(child, "marked_for_unravel_children")
        THEN IF Has(child, "children")
             THEN PruneChildren(Splice(children, i, child),
                                i + Len(child["children"]), only_input_fields)
             ELSE PruneChildren(without, i, only_input_fields)
        ELSE LET pruned_child == prune_tree(child, only_input_fields)
             IN  IF ~IsSome(pruned_child)
                 THEN PruneChildren(without, i, only_input_fields)
                 ELSE PruneChildren([children EXCEPT ![i] = Val(pruned_child)],
                                    i + 1, only_input_fields)

\* __prune_tree deciding on the node as it came, before pruning its children
prune_tree_decides_first(node, only_input_fields) ==
    IF Has(node, "marked_for_deletion_by_mm") THEN None
    ELSE IF should_prune_node(node, only_input_fields) THEN None
    ELSE IF ~Has(node, "children") THEN Some(node)
    ELSE IF Len(PruneChildren(node["children"], 1, only_input_fields)) = 0
         THEN Some(Del(node, "children"))
    ELSE Some([node EXCEPT !["children"] =
                  PruneChildren(node["children"], 1, only_input_fields)])

\* __prune_tree: None, or the pruned node
prune_tree(node, only_input_fields) ==
    IF Has(node, "marked_for_deletion_by_mm") THEN None
    ELSE
    LET n1 == IF Has(node, "children")
              THEN LET ch == PruneChildren(node["children"], 1, only_input_fields)
                   IN  IF Len(ch) = 0 THEN Del(node, "children")
                       ELSE [node EXCEPT !["children"] = ch]
              ELSE node
    IN  IF should_prune_node(n1, only_input_fields) THEN None ELSE Some(n1)

\* __fetch_dom_info
fetch_dom_info(elems, accessibility_tree, only_input_fields) ==
    prune_tree(process_node(accessibility_tree, elems), only_input_fields)

-----------------------------------------------------------------------------
(* ae/core/skills/click_using_selector.py: click and do_click *)

\* before any click: no selector, no do_click result, no observed change, no
\* returned message
ClickIdle ==
    [pc |-> "idle", selector |-> "", result |-> None,
     dom_changes_detected |-> None, ret |-> None]

\* the selectors the agent clicks with (line 17: "[mmid='114']")
Selectors == {"[mmid='1']", "[mmid='2']", "[mmid='3']"}

\* the value of the mmid attribute a selector asks for
SelectorMmid(selector) ==
    CASE selector = "[mmid='1']" -> <<"1">>
      [] selector = "[mmid='2']" -> <<"2">>
      [] OTHER -> <<"3">>

\* page.locator(selector): the elements the selector matches
Located(elems, selector) ==
    {i \in 1..Len(elems) : elems[i].mmid = Some(SelectorMmid(selector))}

\* str(e) of the exceptions Playwright raises at lines 84 and 153
WaitTimeout == "Timeout 5000ms exceeded."
ClickTimeout == "Timeout 1000ms exceeded."

\* what the mutation observer passes to detect_dom_changes
Changes == {"<ul role=\"menu\">", "<div role=\"dialog\">"}

\* values of an <option>
OptionValues == {"A", "B"}

\* element.outerHTML, by the element's tag
OuterHtml(e) == e.tag

\* A message is the sequence of the pieces its f-string concatenates.
\* lines 116-120
FailureResult(selector, e) ==
    [summary_message |->
        <<"Unable to click element with selector: \"", selector, "\". Error: ", e>>,
     detailed_message |->
        <<"Unable to click element with selector: \"", selector, "\". Error: ", e>>]

\* lines 155 and 107-111
ClickedResult(selector, html) ==
    [summary_message |->
        <<"Successfully clicked element with selector: \"", selector, "\".">>,
     detailed_message |->
        <<"Successfully clicked element with selector: \"", selector, "\".",
          " The clicked element's outer HTML is: ", html, ".">>]

\* lines 99-104
SelectedResult(value, html) ==
    [summary_message |-> <<"Select menu option \"", value, "\" selected">>,
     detailed_message |->
        <<"Select menu option \"", value, "\" selected",
          ". The select element's outer HTML is: ", html, ".">>]

\* line 57
ChangesMessage(summary_message, changes, selector) ==
    <<"Success: ">> \o summary_message \o
    <<".\nAs a consequence of this action, new elements have appeared in view: ",
      changes, ". This means that the action to click ", selector,
      " is not yet executed and needs further interaction. Get all_fields DOM to complete the interaction.">>

\* lines 56-58
ReturnedMessage(do_click_result, dom_changes_detected, selector) ==
    IF IsSome(dom_changes_detected) /\ Val(dom_changes_detected) # ""
    THEN ChangesMessage(do_click_result.summary_message, Val(dom_changes_detected), selector)
    ELSE do_click_result.detailed_message

ClickFrame == <<dom, oif, pc, tree, result, rawlog, steps, pre, cycle, pin, pout, pstate, overlap>>

\* lines 30-49: the skill is called with a page open; the callback is subscribed
ClickStart(selector) ==
    /\ click.pc \in {"idle", "returned", "raised"}
    /\ click' = [pc |-> "do_click", selector |-> selector, result |-> None,
                 dom_changes_detected |-> None, ret |-> None]
    /\ UNCHANGED ClickFrame

\* lines 34-37: no page is open, ValueError
ClickNoPage(selector) ==
    /\ click.pc \in {"idle", "returned", "raised"}
    /\ click' = [pc |-> "raised", selector |-> selector, result |-> None,
                 dom_changes_detected |-> None, ret |-> None]
    /\ UNCHANGED ClickFrame

\* lines 45-47: the observer calls detect_dom_changes while it is subscribed
ObserverFires(changes) ==
    /\ click.pc \in {"do_click", "sleep"}
    /\ click' = [click EXCEPT !.dom_changes_detected = Some(changes)]
    /\ UNCHANGED ClickFrame

\* do_click: lines 84-90 or 153 raise, lines 113-120 make the result.  With no
\* element to wait for, wait_for times out; an element that is there may still
\* not become visible or not take the click.
DoClickFails(e) ==
    /\ click.pc = "do_click"
    /\ Located(dom.elems, click.selector) = {} => e = WaitTimeout
    /\ click' = [click EXCEPT !.pc = "sleep",
                              !.result = Some(FailureResult(click.selector, e))]
    /\ UNCHANGED ClickFrame

\* do_click, lines 92-104: the element is an <option>
DoClickSelects(value) ==
    /\ click.pc = "do_click"
    /\ \E i \in Located(dom.elems, click.selector) :
          /\ \A j \in Located(dom.elems, click.selector) : i <= j
          /\ dom.elems[i].tag = "option"
          /\ click' = [click EXCEPT !.pc = "sleep",
                          !.result = Some(SelectedResult(value, OuterHtml(dom.elems[i])))]
    /\ UNCHANGED ClickFrame

\* do_click, lines 106-111: the click went through
DoClickClicks ==
    /\ click.pc = "do_click"
    /\ \E i \in Located(dom.elems, click.selector) :
          /\ \A j \in Located(dom.elems, click.selector) : i <= j
          /\ dom.elems[i].tag # "option"
          /\ click' = [click EXCEPT !.pc = "sleep",
                          !.result = Some(ClickedResult(click.selector, OuterHtml(dom.elems[i])))]
    /\ UNCHANGED ClickFrame

\* lines 51-58: unsubscribe, notify, return
ClickReturns ==
    /\ click.pc = "sleep"
    /\ click' = [click EXCEPT !.pc = "returned",
                              !.ret = Some(ReturnedMessage(Val(click.result),
                                             click.dom_changes_detected, click.selector))]
    /\ UNCHANGED ClickFrame

NextClick ==
    \/ \E selector \in Selectors : ClickStart(selector)
    \/ \E selector \in Selectors : ClickNoPage(selector)
    \/ \E changes \in Changes : ObserverFires(changes)
    \/ \E e \in {WaitTimeout, ClickTimeout} : DoClickFails(e)
    \/ \E value \in OptionValues : DoClickSelects(value)
    \/ DoClickClicks
    \/ ClickReturns

-----------------------------------------------------------------------------
(* Pages the extraction is run on *)

Send == <<"S", "e", "n", "d">>
Hi == <<"H", "i", "!">>
Doc == <<"D", "o", "c">>
Go == <<"G", "o">>

\* a text, a generic <div> wrapper and, inside it, <button id="submit">Send</button>
PageButton ==
    [title |-> <<"T">>,
     elems |-> << El(1, 0, "span", "text", Hi, Hi),
                  El(2, 0, "div", "generic", <<>>, Send),
                  [El(3, 2, "button", "button", Send, Send) EXCEPT !.id = "submit"] >>]

\* elements without, with, and with an empty aria-keyshortcuts attribute
PageShortcuts ==
    [title |-> <<"K">>,
     elems |-> << [El(1, 0, "input", "textbox", <<>>, <<>>)
                      EXCEPT !.type = "text", !.placeholder = Doc],
                  [El(2, 0, "button", "button", Go, Go) EXCEPT !.aks = Some(<<"k">>)],
                  [El(3, 0, "a", "link", Doc, Doc) EXCEPT !.aks = Some(<<>>)] >>]

\* nothing the pruner keeps: an empty <div> and an <svg>
PageBare ==
    [title |-> <<"B">>,
     elems |-> << El(1, 0, "div", "generic", <<>>, <<>>),
                  El(2, 0, "svg", "img", <<>>, <<>>) >>]

\* an untitled page with a <select> of two options
PageSelect ==
    [title |-> <<>>,
     elems |-> << El(1, 0, "select", "combobox", <<>>, <<"A", "\n", "B">>),
                  El(2, 1, "option", "option", <<"A">>, <<"A">>),
                  El(3, 1, "option", "option", <<"B">>, <<"B">>) >>]

\* a button inside the overlay <div id="agentDriveAutoOverlay">
PageOverlay ==
    [title |-> <<"O">>,
     elems |-> << [El(1, 0, "div", "generic", <<>>, Go) EXCEPT !.id = "agentDriveAutoOverlay"],
                  El(2, 1, "button", "button", Go, Go) >>]

Pages == {PageButton, PageShortcuts, PageBare, PageSelect, PageOverlay}

-----------------------------------------------------------------------------
(* do_get_accessibility_info *)

Calls == {"A", "B"}

\* the positions of a call between its entry and its return
InFlight == {"snapshot", "rawlog", "cleanup", "fetch"}

\* lines 395-398 returning the tree it was working on
OnFetchExceptionPartial(partial) == partial

\* lines 395-398: the except clause of do_get_accessibility_info
OnFetchException(partial) == None

Step(c, from, to, label) ==
    /\ pc[c] = from
    /\ pc' = [pc EXCEPT ![c] = to]
    /\ steps' = [steps EXCEPT ![c] = Append(@, label)]

\* line 377, entering the call
Inject(c) ==
    /\ pc[c] \in {"idle", "returned", "raised"}
    /\ cycle < MaxCycles
    /\ cycle' = cycle + 1
    /\ pc' = [pc EXCEPT ![c] = "snapshot"]
    /\ steps' = [steps EXCEPT ![c] = <<"inject">>]
    /\ pre' = [pre EXCEPT ![c] = dom.elems]
    /\ dom' = [dom EXCEPT !.elems = inject_attributes(@)]
    /\ tree' = [tree EXCEPT ![c] = None]
    /\ result' = [result EXCEPT ![c] = None]
    /\ rawlog' = [rawlog EXCEPT ![c] = None]
    /\ overlap' = (overlap \/ \E d \in Calls \ {c} : pc[d] \in InFlight)
    /\ UNCHANGED <<oif, pin, pout, pstate, click>>

\* line 378
SnapshotReturns(c) ==
    /\ Step(c, "snapshot", "rawlog", "snapshot")
    /\ tree' = [tree EXCEPT ![c] = Some(AxTree(dom))]
    /\ UNCHANGED <<dom, oif, result, rawlog, pre, cycle, pin, pout, pstate, overlap, click>>

\* line 378 raising (page closed, navigation): nothing in the function catches it
SnapshotRaises(c) ==
    /\ Step(c, "snapshot", "raised", "snapshot_error")
    /\ UNCHANGED <<dom, oif, tree, result, rawlog, pre, cycle, pin, pout, pstate, overlap, click>>

\* lines 380-382 going on to line 386, the cleanup of line 384 left for later
WriteRawLogThenFetch(c) ==
    /\ Step(c, "rawlog", "fetch", "rawlog")
    /\ rawlog' = [rawlog EXCEPT ![c] = tree[c]]
    /\ UNCHANGED <<dom, oif, tree, result, pre, cycle, pin, pout, pstate, overlap, click>>

\* lines 380-382
WriteRawLog(c) ==
    /\ Step(c, "rawlog", "cleanup", "rawlog")
    /\ rawlog' = [rawlog EXCEPT ![c] = tree[c]]
    /\ UNCHANGED <<dom, oif, tree, result, pre, cycle, pin, pout, pstate, overlap, click>>

\* lines 380-382 raising (OSError): nothing in the function catches it
WriteRawLogRaises(c) ==
    /\ Step(c, "rawlog", "raised", "rawlog_error")
    /\ UNCHANGED <<dom, oif, tree, result, rawlog, pre, cycle, pin, pout, pstate, overlap, click>>

\* line 384
Cleanup(c) ==
    /\ Step(c, "cleanup", "fetch", "cleanup")
    /\ dom' = [dom EXCEPT !.elems = cleanup_dom(@)]
    /\ UNCHANGED <<oif, tree, result, rawlog, pre, cycle, pin, pout, pstate, overlap, click>>

\* lines 386-394: enrichment, pruning, the enriched log, the return
FetchReturns(c) ==
    /\ Step(c, "fetch", "returned", "fetch")
    /\ result' = [result EXCEPT ![c] = fetch_dom_info(dom.elems, Val(tree[c]), oif)]
    /\ UNCHANGED <<dom, oif, tree, rawlog, pre, cycle, pin, pout, pstate, overlap, click>>

\* lines 386-398: a page.evaluate of the traversal or the write of the enriched
\* log raises; the tree is left as far as the traversal got, which nothing reads
FetchRaises(c) ==
    /\ Step(c, "fetch", "returned", "fetch_error")
    /\ result' = [result EXCEPT ![c] = OnFetchException(tree[c])]
    /\ UNCHANGED <<dom, oif, tree, rawlog, pre, cycle, pin, pout, pstate, overlap, click>>

\* the page's own scripts remove an element that has no child elements
PageRemoves(i) ==
    /\ i \in 1..Len(dom.elems)
    /\ ChildrenOf(dom.elems, dom.elems[i].eid) = <<>>
    /\ dom' = [dom EXCEPT !.elems = SubSeq(@, 1, i - 1) \o SubSeq(@, i + 1, Len(@))]
    /\ UNCHANGED <<oif, pc, tree, result, rawlog, steps, pre, cycle, pin, pout, pstate, overlap, click>>

Call(c) ==
    \/ Inject(c)
    \/ SnapshotReturns(c)
    \/ SnapshotRaises(c)
    \/ WriteRawLog(c)
    \/ WriteRawLogRaises(c)
    \/ Cleanup(c)
    \/ FetchReturns(c)
    \/ FetchRaises(c)

HarnessOff == pin = None /\ pout = None /\ pstate = "off"

\* no click is under way and no extraction call has overlapped another
Quiet == overlap = FALSE /\ click = ClickIdle

Init ==
    /\ dom \in Pages
    /\ oif \in BOOLEAN
    /\ pc = [c \in Calls |-> "idle"]
    /\ tree = [c \in Calls |-> None]
    /\ result = [c \in Calls |-> None]
    /\ rawlog = [c \in Calls |-> None]
    /\ steps = [c \in Calls |-> <<>>]
    /\ pre = [c \in Calls |-> <<>>]
    /\ cycle = 0
    /\ HarnessOff
    /\ Quiet

\* one caller, one extraction call in flight at a time
Next ==
    \/ Call("A")
    \/ \E i \in 1..Len(dom.elems) : PageRemoves(i)

Spec == Init /\ [][Next]_vars

\* the page as it was loaded
OriginalPage == CHOOSE q \in Pages : q.title = dom.title

\* a removal by the page's scripts, MaxRemovals of them at most
RaceRemoves(i) ==
    /\ Len(OriginalPage.elems) - Len(dom.elems) < MaxRemovals
    /\ PageRemoves(i)

\* two callers: nothing in the module serialises the calls, so their awaits
\* interleave freely (one after the other included)
NextRace ==
    \/ \E c \in Calls : Call(c)
    \/ \E i \in 1..Len(dom.elems) : RaceRemoves(i)

SpecRace == Init /\ [][NextRace]_vars

-----------------------------------------------------------------------------
(* Trees handed to the pruner and to the enricher *)

\* The shapes of the trees of n nodes: node 1 is the root and parent[i] < i is
\* the parent of node i; siblings are ordered by their numbers
ParentVectors(n) ==
    {parent \in [1..n -> 0..(n - 1)] :
        parent[1] = 0 /\ \A i \in 2..n : parent[i] >= 1 /\ parent[i] < i}

\* the tree under node i, each node j being the dict label[j]
RECURSIVE BuildTree(_, _, _)
BuildTree(parent, label, i) ==
    PutChildren(label[i],
        [k \in 1..Cardinality({j \in DOMAIN parent : parent[j] = i}) |->
            BuildTree(parent, label, Ascending({j \in DOMAIN parent : parent[j] = i})[k])])

\* nodes as process_node leaves them, and the two markers the pruner reads
PruneLabels ==
    { [role |-> "WebArea", name |-> <<"T">>],
      [role |-> "generic"],
      [role |-> "generic", marked_for_unravel_children |-> TRUE],
      [role |-> "generic", mmid |-> <<"9">>, marked_for_deletion_by_mm |-> TRUE],
      [tag |-> "button", mmid |-> <<"3">>, name |-> Send],
      [role |-> "text", name |-> <<"a", "b", "c">>] }

\* names a node may carry
Names ==
    { <<>>, <<"a">>, <<"a", "b">>, <<"a", "b", "c">>, <<"a", "b", "c", "d">>,
      <<" ", "a", "b", " ">>, <<"a", ",", "b">>, <<"a", ":", "\n", "b">>,
      <<"a", " ", "b">>, <<",", ":", "\n">>, <<" ", "a", "b", "c", "\n">> }

\* childless nodes of a role and a name, bare or with a tag, an identifier or
\* an empty children list
SingleNodes ==
    UNION { { [role |-> r, name |-> x],
              [role |-> r, name |-> x, tag |-> "button"],
              [role |-> r, name |-> x, mmid |-> <<"1">>],
              [role |-> r, name |-> x, children |-> <<>>] }
            : r \in {"text", "generic", "button", "WebArea", "separator"}, x \in Names }

\* the pruner called on a node
HarnessPrune ==
    /\ pstate = "ready"
    /\ pstate' = "done"
    /\ pout' = prune_tree(Val(pin), oif)
    /\ UNCHANGED <<dom, oif, pc, tree, result, rawlog, steps, pre, cycle, pin, overlap, click>>

NoPage == [title |-> <<>>, elems |-> <<>>]

InitPrune ==
    /\ dom = NoPage
    /\ oif \in BOOLEAN
    /\ pc = [c \in Calls |-> "idle"]
    /\ tree = [c \in Calls |-> None]
    /\ result = [c \in Calls |-> None]
    /\ rawlog = [c \in Calls |-> None]
    /\ steps = [c \in Calls |-> <<>>]
    /\ pre = [c \in Calls |-> <<>>]
    /\ cycle = 0
    /\ \/ \E t \in SingleNodes : pin = Some(t)
       \/ \E n \in 1..MaxNodes : \E parent \in ParentVectors(n) :
             \E label \in [1..n -> PruneLabels] :
                pin = Some(BuildTree(parent, label, 1))
    /\ pout = None
    /\ pstate = "ready"
    /\ Quiet

NextPrune == HarnessPrune

SpecPrune == InitPrune /\ [][NextPrune]_vars

\* number of nodes of a tree
RECURSIVE Count(_)
RECURSIVE CountAll(_)
Count(node) == 1 + (IF Has(node, "children") THEN CountAll(node["children"]) ELSE 0)
CountAll(nodes) == IF Len(nodes) = 0 THEN 0 ELSE Count(Head(nodes)) + CountAll(Tail(nodes))

\* number of nodes of a tree that may be None
Size(m) == IF IsSome(m) THEN Count(Val(m)) ELSE 0

-----------------------------------------------------------------------------
(* The enricher and pruner on arbitrary snapshots: the call taken up after *)
(* line 384, the browser having returned a tree over RawLabels             *)

RawLabels ==
    { [role |-> "WebArea", name |-> <<"T">>],
      [role |-> "button", name |-> Send, keyshortcuts |-> <<"3">>],
      [role |-> "generic", keyshortcuts |-> <<"2">>],
      [role |-> "combobox", keyshortcuts |-> <<"1">>, description |-> <<"A">>],
      [role |-> "text", name |-> Hi],
      [role |-> "link", name |-> Doc, keyshortcuts |-> <<"3">>],
      [role |-> "dialog", name |-> Hi, modal |-> TRUE] }

Injected(p) == [p EXCEPT !.elems = inject_attributes(@)]
Cleaned(p) == [p EXCEPT !.elems = cleanup_dom(inject_attributes(@))]

\* the snapshots of the pages themselves
PageTrees == {AxTree(Injected(p)) : p \in Pages}

InitFetch ==
    /\ \E p \in Pages :
        /\ dom = Cleaned(p)
        /\ pre = [c \in Calls |-> IF c = "A" THEN p.elems ELSE <<>>]
    /\ \/ \E t \in PageTrees : tree = [c \in Calls |-> IF c = "A" THEN Some(t) ELSE None]
       \/ \E n \in 1..MaxRawNodes : \E parent \in ParentVectors(n) :
             \E label \in [1..n -> RawLabels] :
                tree = [c \in Calls |->
                          IF c = "A" THEN Some(BuildTree(parent, label, 1)) ELSE None]
    /\ rawlog = tree
    /\ oif \in BOOLEAN
    /\ pc = [c \in Calls |-> IF c = "A" THEN "fetch" ELSE "idle"]
    /\ steps = [c \in Calls |->
                  IF c = "A" THEN <<"inject", "snapshot", "rawlog", "cleanup">> ELSE <<>>]
    /\ result = [c \in Calls |-> None]
    /\ cycle = 1
    /\ HarnessOff
    /\ Quiet

NextFetch == FetchReturns("A") \/ FetchRaises("A")

SpecFetch == InitFetch /\ [][NextFetch]_vars

-----------------------------------------------------------------------------
(* The click skill on a page an extraction has numbered *)

InitClick ==
    /\ \E p \in Pages : dom = Cleaned(p)
    /\ oif = FALSE
    /\ pc = [c \in Calls |-> "idle"]
    /\ tree = [c \in Calls |-> None]
    /\ result = [c \in Calls |-> None]
    /\ rawlog = [c \in Calls |-> None]
    /\ steps = [c \in Calls |-> <<>>]
    /\ pre = [c \in Calls |-> <<>>]
    /\ cycle = 0
    /\ HarnessOff
    /\ Quiet

SpecClick == InitClick /\ [][NextClick]_vars

-----------------------------------------------------------------------------
(* The enrichment of one node: lines 66-193 on a node whose identifier is 3, *)
(* for the combinations of the node's fields and the element's attributes    *)

\* a document whose third element has the given tag and attributes, numbered
\* by an extraction
RulesPage(tag, arialabel, placeholder, text) ==
    Cleaned([title |-> <<"R">>,
             elems |-> << El(1, 0, "html", "generic", <<>>, text),
                          El(2, 1, "body", "generic", <<>>, text),
                          [El(3, 2, tag, "generic", <<>>, text)
                              EXCEPT !.arialabel = arialabel, !.placeholder = placeholder,
                                     !.id = "submit", !.for = "x",
                                     !.type = IF tag = "input" THEN "text" ELSE ""] >>])

RuleTags == {"button", "select", "a", "input", "textarea", "div", "svg"}
RuleRoles == {"button", "link", "textbox", "combobox", "generic"}
RuleLabels == {<<>>, Send, Doc}
RuleNames == {<<>>, <<"3">>, Send, Doc}
RuleDescriptions == {<<>>, Send, <<"S", "e", "n", "d", "\n", "D", "o", "c">>}
RuleShortcuts == {<<"3">>, <<"1", " ", "3">>}

\* a snapshot node of the given fields, an absent one given as the empty text
RuleNode(role, name, description, text, keyshortcuts, withChildren) ==
    PutChildren(
        PutStr(PutStr(PutStr(PutStr([role |-> role, level |-> 1],
            "name", name), "description", description), "text", text),
            "keyshortcuts", keyshortcuts),
        IF withChildren THEN <<[role |-> "text", name |-> Hi]>> ELSE <<>>)

\* lines 66-193 run on a node
HarnessEnrich ==
    /\ pstate = "enrich"
    /\ pstate' = "enriched"
    /\ pout' = Some(EnrichNode(Val(pin), dom.elems))
    /\ UNCHANGED <<dom, oif, pc, tree, result, rawlog, steps, pre, cycle, pin, overlap, click>>

InitRules ==
    /\ \E tag \in RuleTags, arialabel \in RuleLabels, placeholder \in {<<>>, Doc},
          text \in {<<>>, Send} :
            dom = RulesPage(tag, arialabel, placeholder, text)
    /\ \E role \in RuleRoles, name \in RuleNames, description \in RuleDescriptions,
          text \in {<<>>, Send}, keyshortcuts \in RuleShortcuts, withChildren \in BOOLEAN :
            pin = Some(RuleNode(role, name, description, text, keyshortcuts, withChildren))
    /\ oif = FALSE
    /\ pc = [c \in Calls |-> "idle"]
    /\ tree = [c \in Calls |-> None]
    /\ result = [c \in Calls |-> None]
    /\ rawlog = [c \in Calls |-> None]
    /\ steps = [c \in Calls |-> <<>>]
    /\ pre = [c \in Calls |-> <<>>]
    /\ cycle = 0
    /\ pout = None
    /\ pstate = "enrich"
    /\ Quiet

NextRules == HarnessEnrich

SpecRules == InitRules /\ [][NextRules]_vars

-----------------------------------------------------------------------------
(* Properties *)

Range(seq) == {seq[i] : i \in 1..Len(seq)}

\* element i carries the identifier i, as attribute mmid
MmidsExact(elems) == \A i \in 1..Len(elems) : elems[i].mmid = Some(ToStr(i))

\* C1: every run of __inject_attributes leaves the page's N elements carrying
\* the identifiers 1..N, one each, in document order, whatever mmid attributes
\* the page carried before.
C1_InjectionNumbersElements ==
    [][\A c \in Calls : Inject(c) => MmidsExact(dom'.elems)]_vars

\* a second injection has just renumbered elements that carried other
\* identifiers from the first cycle
C1_Witness ==
    /\ cycle = 2
    /\ pc["A"] = "snapshot"
    /\ Len(dom.elems) >= 2
    /\ Len(pre["A"]) = Len(dom.elems)
    /\ MmidsExact(dom.elems)
    /\ \A i \in 1..Len(pre["A"]) :
          IsSome(pre["A"][i].mmid) /\ pre["A"][i].mmid # Some(ToStr(i))

\* every element that call c's injection found has the aria-keyshortcuts
\* attribute it had then: the same value, or none
RoundTrip(c) ==
    \A i \in 1..Len(dom.elems), j \in 1..Len(pre[c]) :
        dom.elems[i].eid = pre[c][j].eid => dom.elems[i].aks = pre[c][j].aks

\* C2: after injection and cleanup every element's aria-keyshortcuts is what it
\* was before the injection: the same value if it had the attribute (the empty
\* string included), absent if it had none.
C2_RoundTrip ==
    \A c \in Calls : "cleanup" \in Range(steps[c]) => RoundTrip(c)

\* C3: a call that has injected runs the cleanup step, whichever way it ends:
\* no call is over (returned or raised) without its cleanup having run.
C3_CleanupAlwaysRuns ==
    \A c \in Calls : pc[c] \in {"returned", "raised"} => "cleanup" \in Range(steps[c])

\* C4: an exception inside the enrichment traversal or the pruning is caught:
\* the call returns (it does not raise) and what it returns is None.
C4_FetchExceptionReturnsNone ==
    \A c \in Calls :
        "fetch_error" \in Range(steps[c]) => pc[c] = "returned" /\ result[c] = None

\* the enrichment of a snapshot with children has raised
C4_Witness ==
    /\ pc["A"] = "returned"
    /\ steps["A"][Len(steps["A"])] = "fetch_error"
    /\ IsSome(tree["A"])
    /\ Has(Val(tree["A"]), "children")

\* C5: the call returns a root node whenever the enrichment raised nothing, and
\* None only when it raised.
C5_NoneOnlyOnException ==
    \A c \in Calls :
        pc[c] = "returned" => (result[c] = None <=> "fetch_error" \in Range(steps[c]))

\* C6: the tree __prune_tree returns has at most as many nodes as the tree it
\* was given, for both values of only_input_fields.
C6_PruningMonotonic ==
    pstate = "done" => Size(pout) <= Size(pin)

\* an unravel-marked child was replaced by its two children
C6_Witness ==
    /\ pstate = "done"
    /\ Has(Val(pin), "children")
    /\ Len(Val(pin)["children"]) > 0
    /\ Has(Val(pin)["children"][1], "marked_for_unravel_children")
    /\ Has(Val(pin)["children"][1], "children")
    /\ Len(Val(pin)["children"][1]["children"]) = 2
    /\ Size(pout) = Size(pin) - 1

\* a node whose only fields are name and role, the role being "text"
BareText(n) == DOMAIN n = {"name", "role"} /\ n["role"] = "text"

\* C7 as stated: a bare text node is pruned when its stripped name is shorter
\* than 3 characters, and kept when its name is "abc", for both values of
\* only_input_fields.
C7_BareTextAsStated ==
    pstate = "done" /\ BareText(Val(pin)) =>
        /\ Len(Strip(Val(pin)["name"])) < 3 => pout = None
        /\ Val(pin)["name"] = <<"a", "b", "c">> => pout = pin

\* C7 amended: a bare text node is pruned when its stripped name is shorter
\* than 3 characters, for both values of only_input_fields; with the name "abc"
\* it is kept, unchanged, when only_input_fields is False, and pruned when
\* only_input_fields is True.
C7_BareText ==
    pstate = "done" /\ BareText(Val(pin)) =>
        /\ Len(Strip(Val(pin)["name"])) < 3 => pout = None
        /\ Val(pin)["name"] = <<"a", "b", "c">> => pout = (IF oif THEN None ELSE pin)

\* the bare text node "abc" was pruned by the input-only rule
C7_Witness ==
    /\ pstate = "done"
    /\ oif
    /\ Val(pin) = [name |-> <<"a", "b", "c">>, role |-> "text"]
    /\ pout = None

\* no select node of the tree has children, a role or a description
RECURSIVE SelectsBare(_)
SelectsBare(node) ==
    /\ GetAtom(node, "tag") = "select" =>
          DOMAIN node \cap {"children", "role", "description"} = {}
    /\ Has(node, "children") =>
          \A k \in 1..Len(node["children"]) : SelectsBare(node["children"][k])

\* C8: in the tree the call returns, no node whose tag is "select" has the
\* field children, role or description.
C8_SelectIsAtomic ==
    pc["A"] = "returned" /\ IsSome(result["A"]) => SelectsBare(Val(result["A"]))

\* a combobox node with children, a role and a description came out as a select
C8_Witness ==
    /\ pc["A"] = "returned"
    /\ dom = Cleaned(PageSelect)
    /\ {"children", "role", "description"} \subseteq DOMAIN Val(tree["A"])
    /\ IsSome(result["A"])
    /\ GetAtom(Val(result["A"]), "tag") = "select"

\* every node but a WebArea is an input, a button or a textarea
RECURSIVE InputsOnly(_)
InputsOnly(node) ==
    /\ \/ GetAtom(node, "role") = "WebArea"
       \/ GetAtom(node, "tag") \in {"input", "button", "textarea"}
       \/ GetAtom(node, "role") = "button"
    /\ Has(node, "children") =>
          \A k \in 1..Len(node["children"]) : InputsOnly(node["children"][k])

\* a WebArea over a button and a generic <div>, and what is left of it
ButtonAndDiv ==
    [role |-> "WebArea", name |-> <<"T">>,
     children |-> << [role |-> "button", name |-> Send, keyshortcuts |-> <<"3">>],
                     [role |-> "generic", keyshortcuts |-> <<"2">>] >>]
ButtonAlone ==
    [role |-> "WebArea", name |-> <<"T">>,
     children |-> << [tag |-> "button", mmid |-> <<"3">>, name |-> Send] >>]

\* C9: with only_input_fields=True every node of the returned tree that is not
\* a WebArea has tag input, button or textarea, or role button; and the
\* snapshot of a WebArea over a button and a generic <div> comes out as the
\* WebArea over the button alone.
C9_InputOnlyMode ==
    pc["A"] = "returned" /\ oif /\ "fetch" \in Range(steps["A"]) =>
        /\ IsSome(result["A"]) => InputsOnly(Val(result["A"]))
        /\ tree["A"] = Some(ButtonAndDiv) /\ dom = Cleaned(PageButton) =>
              result["A"] = Some(ButtonAlone)

\* the example ran in input-only mode
C9_Witness ==
    /\ pc["A"] = "returned"
    /\ oif
    /\ tree["A"] = Some(ButtonAndDiv)
    /\ dom = Cleaned(PageButton)
    /\ result["A"] = Some(ButtonAlone)

\* a call on PageButton, untouched by the page since it loaded, has returned
\* from the enrichment
ButtonPageExtracted ==
    /\ pc["A"] = "returned"
    /\ "fetch" \in Range(steps["A"])
    /\ dom = Cleaned(PageButton)

TwoCyclesSamePage ==
    /\ ~overlap
    /\ \A c \in Calls :
          /\ pc[c] = "returned"
          /\ steps[c][Len(steps[c])] = "fetch"
          /\ Len(pre[c]) = Len(dom.elems)

\* C11: two extraction calls made one after the other on a page that does not
\* change in between return the same tree (same shape, same attributes); the
\* attributes the first cycle left on the page do not change the second result.
C11_Idempotent ==
    TwoCyclesSamePage => result["A"] = result["B"]

\* the second cycle ran on a page still carrying the first cycle's mmid
\* attributes, and both returned a tree
C11_Witness ==
    /\ TwoCyclesSamePage
    /\ IsSome(result["A"])
    /\ result["A"] = result["B"]
    /\ \E c \in Calls : Len(pre[c]) > 0 /\ \A i \in 1..Len(pre[c]) : IsSome(pre[c][i].mmid)
    /\ \E c \in Calls : Len(pre[c]) > 0 /\ \A i \in 1..Len(pre[c]) : ~IsSome(pre[c][i].mmid)

\* the aria-keyshortcuts element e had when the page was loaded
OriginalShortcut(e) ==
    (CHOOSE x \in Range(OriginalPage.elems) : x.eid = e.eid).aks

\* call c is about to snapshot elements whose aria-keyshortcuts is not their mmid
StaleSnapshot(c) ==
    /\ pc[c] = "snapshot"
    /\ \E i \in 1..Len(dom.elems) : dom.elems[i].aks # dom.elems[i].mmid

\* no call is between its injection and its cleanup, and an element that had a
\* non-empty aria-keyshortcuts does not have that value
ShortcutLost ==
    /\ \A c \in Calls : pc[c] \notin {"snapshot", "rawlog", "cleanup"}
    /\ \E i \in 1..Len(dom.elems) :
          /\ Truthy(OriginalShortcut(dom.elems[i]))
          /\ dom.elems[i].aks # OriginalShortcut(dom.elems[i])

\* every call made so far found the elements with the aria-keyshortcuts they
\* had when the page was loaded (nothing left behind by a call that raised
\* before its cleanup) and has run its own cleanup
CleanRuns ==
    \A c \in Calls :
        pc[c] # "idle" =>
            /\ "cleanup" \in Range(steps[c])
            /\ \A i \in 1..Len(pre[c]) :
                  \/ pre[c][i].aks = OriginalShortcut(pre[c][i])
                  \/ ~Truthy(OriginalShortcut(pre[c][i])) /\ pre[c][i].aks = None

OwnFields(node) == Del(node, "children")

\* the nodes of a tree, each by its own fields
RECURSIVE NodesOf(_)
NodesOf(node) ==
    {OwnFields(node)} \cup
        (IF Has(node, "children")
         THEN UNION {NodesOf(node["children"][k]) : k \in 1..Len(node["children"])}
         ELSE {})

\* the nodes of a tree that may be None
NodesOfResult(m) == IF IsSome(m) THEN NodesOf(Val(m)) ELSE {}

\* an enriched node (it has the tag and the mmid of its element) that is an
\* input, a button or a textarea
Interactive(node) ==
    /\ Has(node, "tag") /\ Has(node, "mmid")
    /\ \/ GetAtom(node, "tag") \in {"input", "button", "textarea"}
       \/ GetAtom(node, "role") = "button"

\* C12: every enriched node of the tree given to __prune_tree that is an input,
\* a button or a textarea and is not itself marked for deletion is a node of the
\* tree it returns, whatever its ancestors and for both values of only_input_fields.
C12_InteractivePreserved ==
    pstate = "done" =>
        \A n \in NodesOf(Val(pin)) :
            Interactive(n) /\ ~Has(n, "marked_for_deletion_by_mm") =>
                n \in NodesOfResult(pout)

FetchDone == pc["A"] = "returned" /\ steps["A"][Len(steps["A"])] = "fetch"

\* the snapshot of call A as process_node leaves it (the page does not change
\* during the traversal)
Enriched == process_node(Val(tree["A"]), dom.elems)

\* no integer identifier can be derived for the node (lines 66-87)
Unresolved(node) == ~IsSome(ResolveMmid(node, dom.elems))

QueryFails(mmid) == ~IsSome(QueryElement(dom.elems, DigitsValue(mmid), FALSE))

\* C14: a node whose attribute query returns nothing (element gone, id or tag
\* in the ignore lists, an option) is marked with marked_for_deletion_by_mm, and
\* only such a node is; the call goes on to return, and the returned tree has
\* no marked node and no node whose identifier the query rejects.
C14_QueryFailureDeletes ==
    FetchDone =>
        /\ \A n \in NodesOf(Enriched) :
              Has(n, "marked_for_deletion_by_mm") <=>
                  (Has(n, "mmid") /\ QueryFails(n["mmid"]))
        /\ \A n \in NodesOfResult(result["A"]) :
              /\ ~Has(n, "marked_for_deletion_by_mm")
              /\ Has(n, "mmid") => ~QueryFails(n["mmid"])

\* on the overlay page the node resolved to the overlay <div> (id in the ignore
\* list) and a node resolved to an element that is not there were marked, and
\* the call returned a tree without them
C14_Witness ==
    /\ FetchDone
    /\ dom = Cleaned(PageOverlay)
    /\ IsSome(result["A"])
    /\ \E n \in NodesOf(Enriched) :
          Has(n, "marked_for_deletion_by_mm") /\ n["mmid"] = <<"1">>
    /\ \E n \in NodesOf(Enriched) :
          Has(n, "marked_for_deletion_by_mm") /\ n["mmid"] = <<"3">>

\* C15: after process_node every node with role "dialog" and modal = True has
\* the field "important information", resolved or not.
C15_ModalHintAlways ==
    FetchDone =>
        \A n \in NodesOf(Enriched) :
            GetAtom(n, "role") = "dialog" /\ Has(n, "modal") /\ n["modal"] =>
                Has(n, "important information")

\* C17 as stated: once a call's cleanup has run, every element has the mmid,
\* aria-keyshortcuts and orig-aria-keyshortcuts attributes it had before the
\* call's injection: nothing the injection wrote is left.
C17_CleanupReversesAllAsStated ==
    \A c \in Calls :
        "cleanup" \in Range(steps[c]) =>
            \A i \in 1..Len(dom.elems), j \in 1..Len(pre[c]) :
                dom.elems[i].eid = pre[c][j].eid =>
                    /\ dom.elems[i].mmid = pre[c][j].mmid
                    /\ dom.elems[i].aks = pre[c][j].aks
                    /\ dom.elems[i].orig = pre[c][j].orig

\* C17 amended: once a call's cleanup has run, no element has the
\* orig-aria-keyshortcuts backup, and aria-keyshortcuts is the non-empty value
\* the injection found, or absent; the mmid attribute the injection wrote stays
\* on every element.
C17_CleanupKeepsMmid ==
    \A c \in Calls :
        "cleanup" \in Range(steps[c]) =>
            \A i \in 1..Len(dom.elems), j \in 1..Len(pre[c]) :
                dom.elems[i].eid = pre[c][j].eid =>
                    /\ dom.elems[i].mmid = Some(ToStr(j))
                    /\ dom.elems[i].orig = None
                    /\ dom.elems[i].aks =
                          (IF Truthy(pre[c][j].aks) THEN pre[c][j].aks ELSE None)

\* the first cycle on the shortcuts page has cleaned up: the button has its
\* "k" back, and the elements, which had no mmid, carry one
C17_Witness ==
    /\ "cleanup" \in Range(steps["A"])
    /\ cycle = 1
    /\ Len(dom.elems) = Len(PageShortcuts.elems)
    /\ dom.title = PageShortcuts.title
    /\ dom.elems[2].aks = Some(<<"k">>)
    /\ \A i \in 1..Len(dom.elems) :
          ~IsSome(pre["A"][i].mmid) /\ dom.elems[i].mmid = Some(ToStr(i))

\* the step sequences of a call, as far as they get
CallOrders ==
    { <<"inject", "snapshot", "rawlog", "cleanup", "fetch">>,
      <<"inject", "snapshot", "rawlog", "cleanup", "fetch_error">>,
      <<"inject", "snapshot", "rawlog_error">>,
      <<"inject", "snapshot_error">> }

IsPrefix(p, q) == Len(p) <= Len(q) /\ SubSeq(q, 1, Len(p)) = p

\* C18 as stated: the cleanup step of a cycle comes after the enrichment and
\* pruning of that cycle.
C18_CleanupLastAsStated ==
    \A c \in Calls :
        \A i \in 1..Len(steps[c]) :
            steps[c][i] = "cleanup" =>
                \E j \in 1..(i - 1) : steps[c][j] \in {"fetch", "fetch_error"}

\* C18 amended: within one cycle the steps occur in the order injection,
\* snapshot, raw log, cleanup, then enrichment and pruning: the cleanup comes
\* before every per-node DOM query of the cycle, never after.
C18_CleanupBeforeFetch ==
    \A c \in Calls :
        /\ \E order \in CallOrders : IsPrefix(steps[c], order)
        /\ \A i \in 1..Len(steps[c]) :
              steps[c][i] \in {"fetch", "fetch_error"} =>
                  \E j \in 1..(i - 1) : steps[c][j] = "cleanup"

\* a cycle ran to its end: the enrichment, with its queries, came last
C18_Witness ==
    /\ pc["A"] = "returned"
    /\ steps["A"] = <<"inject", "snapshot", "rawlog", "cleanup", "fetch">>
    /\ IsSome(result["A"])
    /\ \E n \in NodesOfResult(result["A"]) : Has(n, "tag")

\* the click attempt failed: do_click took its except branch
ClickFailed ==
    /\ IsSome(click.result)
    /\ Head(Val(click.result).summary_message) = "Unable to click element with selector: \""

\* C16: a failed click is not raised but returned: do_click's result has both
\* messages describing the failure, and click returns that error message, not
\* one beginning with "Success", also when the mutation observer fired.
C16_FailedClickReported ==
    ClickFailed =>
        /\ click.pc # "raised"
        /\ Val(click.result).detailed_message = Val(click.result).summary_message
        /\ click.pc = "returned" =>
              /\ click.ret = Some(Val(click.result).detailed_message)
              /\ Head(Val(click.ret)) # "Success: "

\* what one child leaves in its parent's list: its own children if it is
\* marked for unraveling, nothing if its pruning yields deleted, else its
\* pruned form
Replacement(child) ==
    IF Has(child, "marked_for_unravel_children")
    THEN (IF Has(child, "children") THEN child["children"] ELSE <<>>)
    ELSE prune_tree(child, oif)

\* the replacements of the children, in the order of the children
RECURSIVE Replacements(_)
Replacements(children) ==
    IF Len(children) = 0 THEN <<>>
    ELSE Replacement(Head(children)) \o Replacements(Tail(children))

\* C21: the child list of the node __prune_tree returns is, in the original
\* order, each unravel-marked child replaced by its own children (by nothing if
\* it has none), each child whose pruning yields deleted removed, each other
\* child replaced by its pruned form: no sibling is skipped, repeated or moved.
C21_OnePassOverChildren ==
    pstate = "done" /\ IsSome(pout) /\ Has(Val(pin), "children") =>
        (IF Has(Val(pout), "children") THEN Val(pout)["children"] ELSE <<>>)
            = Replacements(Val(pin)["children"])

\* the loop spliced the child of an unravel-marked first child into the list
\* and went on to the sibling after it, which it deleted
C21_Witness ==
    /\ pstate = "done"
    /\ IsSome(pout)
    /\ Has(Val(pin), "children")
    /\ Len(Val(pin)["children"]) = 2
    /\ Has(Val(pin)["children"][1], "marked_for_unravel_children")
    /\ Has(Val(pin)["children"][1], "children")
    /\ ~Has(Val(pin)["children"][2], "marked_for_unravel_children")
    /\ prune_tree(Val(pin)["children"][2], oif) = None
    /\ Has(Val(pout), "children")
    /\ Val(pout)["children"] = Val(pin)["children"][1]["children"]

\* every child of the list is deleted by its own pruning
AllDeleted(children) ==
    \A k \in 1..Len(children) :
        /\ ~Has(children[k], "marked_for_unravel_children")
        /\ prune_tree(children[k], oif) = None

\* no node of the tree has an empty children list
RECURSIVE NoEmptyChildren(_)
NoEmptyChildren(node) ==
    Has(node, "children") =>
        /\ Len(node["children"]) > 0
        /\ \A k \in 1..Len(node["children"]) : NoEmptyChildren(node["children"][k])

\* C22: a node's disposition is decided on its child list as the pruning of
\* the children left it, an emptied children field being removed first: a node
\* whose children are all gone is judged as the same node without children, a
\* generic node without a truthy name whose children are all deleted is itself
\* deleted, and no returned node has an empty children list.
C22_PostOrder ==
    pstate = "done" =>
        /\ /\ Has(Val(pin), "children")
           /\ ~Has(Val(pin), "marked_for_deletion_by_mm")
           /\ Replacements(Val(pin)["children"]) = <<>>
           => pout = (IF should_prune_node(OwnFields(Val(pin)), oif)
                      THEN None ELSE Some(OwnFields(Val(pin))))
        /\ /\ Has(Val(pin), "children")
           /\ AllDeleted(Val(pin)["children"])
           /\ GetAtom(Val(pin), "role") = "generic"
           /\ Len(GetStr(Val(pin), "name")) = 0
           => pout = None
        /\ IsSome(pout) => NoEmptyChildren(Val(pout))

\* a generic node, judged with only_input_fields False, was deleted because
\* its two children were: one of them a generic node emptied the same way
C22_Witness ==
    /\ pstate = "done"
    /\ ~oif
    /\ DOMAIN Val(pin) = {"role", "children"}
    /\ Val(pin)["role"] = "generic"
    /\ Len(Val(pin)["children"]) = 2
    /\ AllDeleted(Val(pin)["children"])
    /\ \E k \in 1..2 : DOMAIN Val(pin)["children"][k] = {"role", "children"}
    /\ pout = None

\* the identifier resolved for the harness node, and what the query returns
ResolvedId == Val(ResolveMmid(Val(pin), dom.elems))
Queried == QueryElement(dom.elems, ResolvedId, ~Has(Val(pin), "children"))

\* the harness node as line 160 and as line 177 find it
AtLine160 == Update(SetMmid(ModalRule(Val(pin)), ResolvedId), Val(Queried))
AtLine177 ==
    SelectRule(DropTextEqualName(DropContainedAriaLabel(
        DropDuplicateDescription(DropNameEqualMmid(AtLine160)))))

\* C23: for a node whose attribute query succeeded, after the whole rule
\* sequence the node has mmid, the string form of the resolved identifier, and
\* tag, the element's tag, for every combination of role, name, description,
\* aria-label, placeholder and text; and no del of the sequence finds its key
\* missing (the None == None cases of lines 160 and 177 do not arise).
C23_RulesKeepIdAndTag ==
    pstate = "enriched" /\ IsSome(ResolveMmid(Val(pin), dom.elems)) /\ IsSome(Queried) =>
        /\ Has(Val(pout), "mmid")
        /\ Val(pout)["mmid"] = ToStr(ResolvedId)
        /\ Has(Val(pout), "tag")
        /\ Val(pout)["tag"] = dom.elems[ResolvedId].tag
        /\ Has(AtLine160, "name") \/ Has(AtLine160, "mmid")
        /\ Has(AtLine177, "role") \/ Has(AtLine177, "tag")

\* the rules ran on a button whose role equals its tag and whose name is the
\* identifier: role and name went, mmid and tag stayed
C23_Witness ==
    /\ pstate = "enriched"
    /\ IsSome(Queried)
    /\ Val(pin)["role"] = "button"
    /\ GetStr(Val(pin), "name") = <<"3">>
    /\ dom.elems[3].tag = "button"
    /\ ~Has(Val(pout), "role")
    /\ ~Has(Val(pout), "name")
    /\ Val(pout)["mmid"] = <<"3">>
    /\ Val(pout)["tag"] = "button"

====
